---- MODULE Spec2Model ----
(***************************************************************************)
(* A model of parseo-app: the SEOAnalyzer of src/seo_analyzer.py and the   *)
(* /analyze handler of src/app.py.                                         *)
(*                                                                         *)
(* Four specifications share the module:                                   *)
(*   Spec          the handler and analyze_url, two requests interleaved   *)
(*                 on the one shared SEOAnalyzer instance;                 *)
(*   SpecClean     clean_text on every bounded text;                       *)
(*   SpecKeywords  Counter(...).most_common(10) on bounded token lists;    *)
(*   SpecLinks     analyze_links on bounded anchor lists.                  *)
(*                                                                         *)
(* Python values: a str is a sequence of one-character strings, a list a   *)
(* sequence, a dict a function from its keys, None a record with a flag.   *)
(***************************************************************************)
EXTENDS Integers, Sequences, FiniteSets, TLC

VARIABLES
  \* ---- clean_text (SpecClean)
  ctPc, ctText, ctWords, ctOut,
  \* ---- Counter and most_common (SpecKeywords)
  kwPc, kwTokens, kwFreq, kwOut,
  \* ---- analyze_links (SpecLinks)
  lnPc, lnBase, lnAnchors, lnLinks, lnI, internal_links, external_links, lnResult,
  \* ---- the handler and analyze_url (Spec)
  clock,            \* the wall clock datetime.now() reads
  keyword_library,  \* self.keyword_library of the shared SEOAnalyzer
  word_freq,        \* the Counter of line 161, one per scope
  req               \* each request's locals, in the handler and in analyze_url

ctVars == <<ctPc, ctText, ctWords, ctOut>>
kwVars == <<kwPc, kwTokens, kwFreq, kwOut>>
lnVars == <<lnPc, lnBase, lnAnchors, lnLinks, lnI, internal_links, external_links, lnResult>>
orVars == <<clock, keyword_library, word_freq, req>>

\* what the steps of one specification leave alone: the others' state
CtFrame == UNCHANGED <<kwVars, lnVars, orVars>>
KwFrame == UNCHANGED <<ctVars, lnVars, orVars>>
LnFrame == UNCHANGED <<ctVars, kwVars, orVars>>
OrFrame == UNCHANGED <<ctVars, kwVars, lnVars>>

vars == <<ctPc, ctText, ctWords, ctOut, kwPc, kwTokens, kwFreq, kwOut,
          lnPc, lnBase, lnAnchors, lnLinks, lnI, internal_links, external_links, lnResult,
          clock, keyword_library, word_freq, req>>

(***************************************************************************)
(* Helpers on sequences.                                                   *)
(***************************************************************************)
Range(s) == {s[i] : i \in DOMAIN s}

SeqsUpTo(S, n) == UNION {[1..k -> S] : k \in 0..n}

Min(a, b) == IF a <= b THEN a ELSE b

\* the suffix test str.endswith
EndsWith(w, suf) ==
  /\ Len(w) >= Len(suf)
  /\ SubSeq(w, Len(w) - Len(suf) + 1, Len(w)) = suf

\* the word without its last n characters
DropLast(w, n) == SubSeq(w, 1, Len(w) - n)

(***************************************************************************)
(* clean_text: src/seo_analyzer.py lines 31-37.                            *)
(***************************************************************************)
\* The characters of the modelled texts: four letters, one upper-case letter,
\* one punctuation mark and the space.
Chars == {"a", "n", "d", "s", "A", ".", " "}

\* str.lower on the modelled characters
Lower(c) == IF c = "A" THEN "a" ELSE c

\* \s of the regular expression, and what str.split() splits on
IsSpace(c) == c = " "

\* \w of the regular expression: letters, digits, underscore
IsWordChar(c) == c \in {"a", "n", "d", "s", "A"}

\* re.sub(r'[^\w\s]', ' ', text.lower())
SubLower(text) ==
  [i \in DOMAIN text |->
     LET c == Lower(text[i])
     IN  IF IsWordChar(c) \/ IsSpace(c) THEN c ELSE " "]

\* str.split(): the maximal runs of non-space characters, in order
RECURSIVE SplitFrom(_, _, _)
SplitFrom(text, i, cur) ==
  IF i > Len(text)
    THEN IF cur = <<>> THEN <<>> ELSE <<cur>>
    ELSE IF IsSpace(text[i])
           THEN (IF cur = <<>> THEN <<>> ELSE <<cur>>) \o SplitFrom(text, i + 1, <<>>)
           ELSE SplitFrom(text, i + 1, Append(cur, text[i]))

Split(text) == SplitFrom(text, 1, <<>>)

\* self.stop_words: the set written in __init__ (lines 25-26), and the
\* members of NLTK's English list that the modelled letters can spell
\* (a, an, and, as, s, d; all but "as", "a", "s", "d" are in the written set).
stop_words ==
  { <<"t","h","e">>, <<"a","n","d">>, <<"i","s">>, <<"i","n">>, <<"t","o">>,
    <<"i","t">>, <<"t","h","a","t">>, <<"w","e">>, <<"f","o","r">>, <<"a","n">>,
    <<"a","r","e">>, <<"b","y">>, <<"b","e">>, <<"t","h","i","s">>,
    <<"w","i","t","h">>, <<"i">>, <<"y","o","u">>, <<"n","o","t">>, <<"o","r">>,
    <<"o","n">>, <<"y","o","u","r">> }
  \cup { <<"a">>, <<"a","s">>, <<"s">>, <<"d">> }

\* the minimum length of a kept word is one more than this: len(word) > 2
ShortWordLen == 2

\* the mutant of KeepWord: the length test off by one
KeepWordLenOffByOne(w) == w # <<>> /\ w \notin stop_words /\ Len(w) >= ShortWordLen

\* the filter of line 36: word and word not in self.stop_words and len(word) > 2
KeepWord(w) == w # <<>> /\ w \notin stop_words /\ Len(w) > ShortWordLen

FilterWords(ws) == SelectSeq(ws, KeepWord)

\* PorterStemmer.stem (NLTK_EXTENSIONS mode): words of at most 2 characters
\* are returned as they are; step 1a is the rule list sses -> ss, ies -> i
\* (ies -> ie for a word of 4 characters), ss -> ss, s -> "" with the first
\* matching suffix applied.  Steps 1b to 5 and the table of irregular forms
\* only match suffixes and words spelled with letters outside a, n, d, s,
\* so on the modelled words they change nothing.
PorterStem(w) ==
  IF Len(w) <= 2 THEN w
  ELSE IF EndsWith(w, <<"i","e","s">>) /\ Len(w) = 4 THEN DropLast(w, 1)
  ELSE IF EndsWith(w, <<"s","s","e","s">>) THEN DropLast(w, 2)
  ELSE IF EndsWith(w, <<"i","e","s">>) THEN DropLast(w, 2)
  ELSE IF EndsWith(w, <<"s","s">>) THEN w
  ELSE IF EndsWith(w, <<"s">>) THEN DropLast(w, 1)
  ELSE w

StemAll(ws) == [i \in DOMAIN ws |-> PorterStem(ws[i])]

\* "not text": None or the empty string
IsEmptyText(t) == t.none \/ t.chars = <<>>

\* the whole function, as one value
clean_text(t) ==
  IF IsEmptyText(t) THEN <<>>
  ELSE StemAll(FilterWords(Split(SubLower(t.chars))))

NoneText == [none |-> TRUE, chars |-> <<>>]
Text(cs) == [none |-> FALSE, chars |-> cs]

\* the longest text of SpecClean
MaxTextLen == 5

\* clean_text not running: the state of the other specifications
CtIdle ==
  /\ ctPc = "idle"
  /\ ctText = NoneText
  /\ ctWords = <<>>
  /\ ctOut = <<>>

CtInit ==
  /\ ctPc = "start"
  /\ ctText \in {NoneText} \cup {Text(cs) : cs \in SeqsUpTo(Chars, MaxTextLen)}
  /\ ctWords = <<>>
  /\ ctOut = <<>>

\* lines 33-34: if not text: return []
CtReturnEmpty ==
  /\ ctPc = "start"
  /\ IsEmptyText(ctText)
  /\ ctOut' = <<>>
  /\ ctPc' = "done"
  /\ UNCHANGED <<ctText, ctWords>>
  /\ CtFrame

\* lines 35-36: substitute, lower, split, filter
CtFilter ==
  /\ ctPc = "start"
  /\ ~IsEmptyText(ctText)
  /\ ctWords' = FilterWords(Split(SubLower(ctText.chars)))
  /\ ctPc' = "stem"
  /\ UNCHANGED <<ctText, ctOut>>
  /\ CtFrame

\* line 37: return [self.stemmer.stem(word) for word in words]
CtStem ==
  /\ ctPc = "stem"
  /\ ctOut' = StemAll(ctWords)
  /\ ctPc' = "done"
  /\ UNCHANGED <<ctText, ctWords>>
  /\ CtFrame

CtNext == CtReturnEmpty \/ CtFilter \/ CtStem

(***************************************************************************)
(* Counter(cleaned_words).most_common(10): src/seo_analyzer.py lines       *)
(* 161-162.  A Counter is a dict, which keeps its keys in the order of     *)
(* their first insertion: a sequence of [word, n] entries.                 *)
(***************************************************************************)
\* the 10 of most_common(10)
TopN == 10

EmptyCounter == <<>>

HasWord(freq, w) == \E i \in DOMAIN freq : freq[i].word = w

\* Counter's update for one element: self[elem] = self.get(elem, 0) + 1
CounterAdd(freq, w) ==
  IF HasWord(freq, w)
    THEN [i \in DOMAIN freq |->
            IF freq[i].word = w THEN [word |-> w, n |-> freq[i].n + 1] ELSE freq[i]]
    ELSE Append(freq, [word |-> w, n |-> 1])

RECURSIVE CounterFrom(_, _)
CounterFrom(freq, ws) ==
  IF ws = <<>> THEN freq ELSE CounterFrom(CounterAdd(freq, Head(ws)), Tail(ws))

\* Counter(iterable)
Counter(ws) == CounterFrom(EmptyCounter, ws)

\* the place of entry e in a list sorted by descending count, behind the
\* entries that are not smaller: equal counts keep their order
RECURSIVE InsertStable(_, _)
InsertStable(sorted, e) ==
  IF sorted = <<>> THEN <<e>>
  ELSE IF Head(sorted).n >= e.n
         THEN <<Head(sorted)>> \o InsertStable(Tail(sorted), e)
         ELSE <<e>> \o sorted

\* the same, in front of the entries with an equal count
RECURSIVE InsertBeforeEqual(_, _)
InsertBeforeEqual(sorted, e) ==
  IF sorted = <<>> THEN <<e>>
  ELSE IF Head(sorted).n > e.n
         THEN <<Head(sorted)>> \o InsertBeforeEqual(Tail(sorted), e)
         ELSE <<e>> \o sorted

RECURSIVE SortedStable(_, _)
SortedStable(acc, items) ==
  IF items = <<>> THEN acc
  ELSE SortedStable(InsertStable(acc, Head(items)), Tail(items))

RECURSIVE SortedUnstable(_, _)
SortedUnstable(acc, items) ==
  IF items = <<>> THEN acc
  ELSE SortedUnstable(InsertBeforeEqual(acc, Head(items)), Tail(items))

\* the mutant of MostCommon: a selection that is not stable
MostCommonUnstable(freq, n) ==
  SubSeq(SortedUnstable(<<>>, freq), 1, Min(n, Len(freq)))

\* Counter.most_common(n) is heapq.nlargest(n, self.items(), key=count),
\* which is sorted(self.items(), key=count, reverse=True)[:n]: a stable
\* sort of the entries in insertion order
MostCommon(freq, n) ==
  SubSeq(SortedStable(<<>>, freq), 1, Min(n, Len(freq)))

\* line 162: [word for word, _ in word_freq.most_common(10)]
Keywords(freq) ==
  LET top == MostCommon(freq, TopN) IN [i \in DOMAIN top |-> top[i].word]

\* The token lists of SpecKeywords.  Tokens are numbers.  One family is the
\* tokens 1..k each once, in order, followed by at most MaxExtra repeats:
\* with k > TopN the tokens of equal count straddle the 10th place.  The
\* other is every list of at most SmallLen tokens out of SmallTokens.
NumTokens == 12
MaxExtra == 2
SmallTokens == 3
SmallLen == 4

Prefix(k) == [i \in 1..k |-> i]

KwInputs ==
  {Prefix(k) \o e : k \in 0..NumTokens, e \in SeqsUpTo(1..NumTokens, MaxExtra)}
  \cup SeqsUpTo(1..SmallTokens, SmallLen)

KwIdle ==
  /\ kwPc = "idle"
  /\ kwTokens = <<>>
  /\ kwFreq = EmptyCounter
  /\ kwOut = <<>>

KwInit ==
  /\ kwPc = "start"
  /\ kwTokens \in KwInputs
  /\ kwFreq = EmptyCounter
  /\ kwOut = <<>>

\* line 161: word_freq = Counter(cleaned_words)
KwCount ==
  /\ kwPc = "start"
  /\ kwFreq' = Counter(kwTokens)
  /\ kwPc' = "counted"
  /\ UNCHANGED <<kwTokens, kwOut>>
  /\ KwFrame

\* line 162
KwMostCommon ==
  /\ kwPc = "counted"
  /\ kwOut' = Keywords(kwFreq)
  /\ kwPc' = "done"
  /\ UNCHANGED <<kwTokens, kwFreq>>
  /\ KwFrame

KwNext == KwCount \/ KwMostCommon

(***************************************************************************)
(* analyze_links: src/seo_analyzer.py lines 95-120.  A URL string is the   *)
(* record of the components urlparse splits it into; "valid" is whether    *)
(* urlparse accepts the string (it raises ValueError on "http://[bad").    *)
(***************************************************************************)
EmptyDict == [k \in {} |-> TRUE]

Url(scheme, netloc, path, frag) ==
  [scheme |-> scheme, netloc |-> netloc, path |-> path, frag |-> frag, valid |-> TRUE]

\* "http://[bad": an IPv6 bracket that is never closed
BadUrl == [scheme |-> "http", netloc |-> "[bad", path |-> "", frag |-> "", valid |-> FALSE]

\* the empty string
EmptyUrl == Url("", "", "", "")

Hrefs ==
  { Url("", "", "/about", ""),                   \* /about
    Url("https", "example.com", "/contact", ""), \* https://example.com/contact
    Url("https", "other.com", "/x", ""),         \* https://other.com/x
    Url("mailto", "", "a@b.com", ""),            \* mailto:a@b.com
    Url("", "", "", "top"),                      \* #top
    Url("https", "sub.example.com", "/", ""),    \* https://sub.example.com/
    Url("", "other.com", "/x", ""),              \* //other.com/x
    Url("http", "example.com", "/", ""),         \* http://example.com/
    EmptyUrl,                                    \* href=""
    BadUrl }                                     \* http://[bad

BaseUrls ==
  { Url("https", "example.com", "/page", ""),    \* https://example.com/page
    Url("http", "other.com", "/", "") }          \* http://other.com/

\* an <a> element: with or without an href attribute
Anchor(h) == [has_href |-> TRUE, href |-> h]
NoHrefAnchor == [has_href |-> FALSE, href |-> EmptyUrl]
Anchors == {Anchor(h) : h \in Hrefs} \cup {NoHrefAnchor}

\* urllib.parse.uses_relative and uses_netloc, the schemes of the model
uses_relative == {"", "http", "https"}
uses_netloc == {"", "http", "https"}

\* the mutant of UrlJoin: the href is not resolved against the base
UrlJoinNoResolve(base, url) == url

\* urljoin(base, url), which line 106 calls on a parsable url: the url
\* itself when it is empty-based or has another scheme, the url with the
\* base's scheme when it names a netloc, else the base's scheme and netloc
\* with the merged path
UrlJoin(base, url) ==
  IF url = EmptyUrl THEN base
  ELSE LET scheme == IF url.scheme = "" THEN base.scheme ELSE url.scheme
       IN  IF scheme # base.scheme \/ scheme \notin uses_relative THEN url
           ELSE IF scheme \in uses_netloc /\ url.netloc # ""
                  THEN [url EXCEPT !.scheme = scheme]
                  ELSE [url EXCEPT !.scheme = scheme, !.netloc = base.netloc,
                                   !.path = IF url.path = "" THEN base.path ELSE url.path]

\* line 109: parsed_href.netloc == parsed_base.netloc
SameNetloc(base, full) == full.netloc = base.netloc

\* line 97: soup.find_all('a', href=True)
FindAllWithHref(anchors) ==
  LET Has(a) == a.has_href IN SelectSeq(anchors, Has)

\* the hrefs of the anchors that have one, in document order
HrefsOf(anchors) ==
  LET with == FindAllWithHref(anchors) IN [i \in DOMAIN with |-> with[i].href]

\* the longest anchor list of SpecLinks
MaxAnchors == 3

LnIdle ==
  /\ lnPc = "idle"
  /\ lnBase = EmptyUrl
  /\ lnAnchors = <<>>
  /\ lnLinks = <<>>
  /\ lnI = 0
  /\ internal_links = <<>>
  /\ external_links = <<>>
  /\ lnResult = EmptyDict

LnInit ==
  /\ lnPc = "start"
  /\ lnBase \in BaseUrls
  /\ lnAnchors \in SeqsUpTo(Anchors, MaxAnchors)
  /\ lnLinks = <<>>
  /\ lnI = 0
  /\ internal_links = <<>>
  /\ external_links = <<>>
  /\ lnResult = EmptyDict

\* lines 97-101
LnFindAll ==
  /\ lnPc = "start"
  /\ lnLinks' = FindAllWithHref(lnAnchors)
  /\ lnI' = 1
  /\ lnPc' = "loop"
  /\ UNCHANGED <<lnBase, lnAnchors, internal_links, external_links, lnResult>>
  /\ LnFrame

\* lines 103-112, an iteration whose urljoin and urlparse succeed
LnClassify ==
  /\ lnPc = "loop"
  /\ lnI <= Len(lnLinks)
  /\ lnLinks[lnI].href.valid
  /\ LET href == lnLinks[lnI].href
         full_url == UrlJoin(lnBase, href)
     IN  IF SameNetloc(lnBase, full_url)
           THEN /\ internal_links' = Append(internal_links, href)
                /\ UNCHANGED external_links
           ELSE /\ external_links' = Append(external_links, href)
                /\ UNCHANGED internal_links
  /\ lnI' = lnI + 1
  /\ UNCHANGED <<lnPc, lnBase, lnAnchors, lnLinks, lnResult>>
  /\ LnFrame

\* lines 113-114: urljoin raised, except: continue
LnSkip ==
  /\ lnPc = "loop"
  /\ lnI <= Len(lnLinks)
  /\ ~lnLinks[lnI].href.valid
  /\ lnI' = lnI + 1
  /\ UNCHANGED <<lnPc, lnBase, lnAnchors, lnLinks, internal_links, external_links, lnResult>>
  /\ LnFrame

\* lines 116-120
LnReturn ==
  /\ lnPc = "loop"
  /\ lnI > Len(lnLinks)
  /\ lnResult' = [internalCount |-> Len(internal_links),
                  externalCount |-> Len(external_links),
                  totalCount |-> Len(internal_links) + Len(external_links)]
  /\ lnPc' = "done"
  /\ UNCHANGED <<lnBase, lnAnchors, lnLinks, lnI, internal_links, external_links>>
  /\ LnFrame

LnNext == LnFindAll \/ LnClassify \/ LnSkip \/ LnReturn

(***************************************************************************)
(* The /analyze handler (src/app.py lines 24-97) and analyze_url           *)
(* (src/seo_analyzer.py lines 142-195): two requests served concurrently   *)
(* by the one module-level SEOAnalyzer (app.py line 22).                   *)
(***************************************************************************)
Requests == {"r1", "r2"}

\* the last reading of the clock
MaxClock == 1

\* line 146: len(content) < 100
MinContentLen == 100

NoneContent == [none |-> TRUE, len |-> 0]
Body(n) == [none |-> FALSE, len |-> n]

\* what soup.find returns for the description meta tag and for the canonical
\* link: no tag, a tag with its attribute, a tag that lacks the attribute
TagStates == {"absent", "present", "no_attribute"}

\* what flesch_reading_ease does on a page's text: returns a score, or raises
Readability(score) == [raises |-> FALSE, score |-> score]
ReadabilityRaises == [raises |-> TRUE, score |-> 0]

\* a response body: its length in characters and what the parsed document
\* holds: the visible text, the two tags analyze_technical subscripts, the
\* anchors, and the outcome of the readability formula
Page(len, text, meta, canonical, anchors, readability) ==
  [len |-> len, text |-> text, meta |-> meta, canonical |-> canonical,
   anchors |-> anchors, readability |-> readability]

\* a body of n characters with no text, tags or anchors
BarePage(n) == Page(n, Text(<<>>), "absent", "absent", <<>>, ReadabilityRaises)

\* the visible texts "ads sand ads" and "sand dad"
TextAdsSandAds == Text(<<"a","d","s"," ","s","a","n","d"," ","a","d","s">>)
TextSandDad == Text(<<"s","a","n","d"," ","d","a","d">>)

SomeAnchors ==
  <<Anchor(Url("", "", "/about", "")), Anchor(Url("mailto", "", "a@b.com", "")),
    NoHrefAnchor>>

\* the bodies a fetch returns: too short ones (empty, 50 and 99 characters),
\* and pages of 100 and 101 characters: with every tag in order, with no
\* tags, with a description meta tag that lacks its content attribute, with
\* a canonical link that lacks its href attribute
Pages ==
  { BarePage(0), BarePage(50), BarePage(MinContentLen - 1),
    Page(MinContentLen, TextAdsSandAds, "present", "present", SomeAnchors, Readability(70)),
    Page(MinContentLen + 1, TextSandDad, "absent", "absent", <<>>, ReadabilityRaises),
    Page(MinContentLen, TextSandDad, "no_attribute", "present", <<>>, Readability(30)),
    Page(MinContentLen + 1, TextAdsSandAds, "present", "no_attribute", SomeAnchors,
         Readability(70)) }

\* the names bound in seo_analyzer's module namespace: the imports of
\* lines 1-11.  There is no "import time".
ModuleGlobals ==
  {"os", "re", "requests", "BeautifulSoup", "Counter", "defaultdict", "datetime",
   "flesch_reading_ease", "urljoin", "urlparse", "nltk", "stopwords", "PorterStemmer"}

\* the exception classes of the model, all subclasses of Exception
ExceptionClasses == {"RequestException", "KeyError", "NameError", "Exception"}

\* line 48: except requests.exceptions.RequestException
FetchCatches(class) == class = "RequestException"

\* the mutant of AnalyzeUrlCatches: the handler of fetch_url_content
AnalyzeUrlCatchesRequestOnly(class) == class = "RequestException"

\* line 185: except Exception
AnalyzeUrlCatches(class) == class \in ExceptionClasses

\* the dict of lines 147-155 and of lines 187-195
ErrorResult(msg) ==
  [error |-> msg, keywords |-> <<>>, content |-> EmptyDict, technical |-> EmptyDict,
   links |-> EmptyDict, performance |-> EmptyDict, metadata |-> EmptyDict]

InsufficientContent == "Insufficient content"

\* the mutant of TooShort: the bound off by one
TooShortOffByOne(content) == content.none \/ content.len = 0 \/ content.len <= MinContentLen

\* line 146: not content or len(content) < 100
TooShort(content) == content.none \/ content.len = 0 \/ content.len < MinContentLen

\* the mutant of Scope: one counter on the instance, shared by the calls
ScopeShared(p) == "r1"

\* word_freq is a local of the call (line 161)
Scope(p) == p

\* lines 75-82
get_readability_interpretation(score) ==
  IF score > 60 THEN "Good" ELSE IF score > 40 THEN "Fair" ELSE "Needs Improvement"

\* lines 99-110 of app.py
InterpretReadability(score) ==
  IF score > 80 THEN "Very Easy"
  ELSE IF score > 60 THEN "Easy"
  ELSE IF score > 40 THEN "Moderate"
  ELSE IF score > 20 THEN "Difficult"
  ELSE "Very Difficult"

\* lines 138-140
check_ssl(url) == url.scheme = "https"

\* analyze_links as one value (lines 95-120)
analyze_links(base, anchors) ==
  LET hs == HrefsOf(anchors)
      In(h) == h.valid /\ SameNetloc(base, UrlJoin(base, h))
      Out(h) == h.valid /\ ~SameNetloc(base, UrlJoin(base, h))
  IN  [internalCount |-> Len(SelectSeq(hs, In)),
       externalCount |-> Len(SelectSeq(hs, Out)),
       totalCount |-> Len(SelectSeq(hs, In)) + Len(SelectSeq(hs, Out))]

\* a request before it arrives
FreshRequest ==
  [pc |-> "idle", url |-> EmptyUrl, start_time |-> 0, content |-> NoneContent,
   page |-> BarePage(0), text |-> NoneText, cleaned_words |-> <<>>, counted |-> 0, keywords |-> <<>>,
   sections |-> EmptyDict, ran |-> {}, faults |-> {}, escaped |-> "none",
   result |-> EmptyDict, response |-> EmptyDict]

OrIdle ==
  /\ clock = 0
  /\ keyword_library = EmptyCounter
  /\ word_freq = [p \in Requests |-> EmptyCounter]
  /\ req = [p \in Requests |-> [FreshRequest EXCEPT !.pc = "off"]]

\* __init__ (lines 22-29): keyword_library = defaultdict(int), empty
OrInit ==
  /\ clock = 0
  /\ keyword_library = EmptyCounter
  /\ word_freq = [p \in Requests |-> EmptyCounter]
  /\ req = [p \in Requests |-> FreshRequest]

\* the body of an error response of the handler (lines 34-40, 47-53, 91-97)
ErrorResponse(status, msg, start) ==
  [status |-> status,
   body |-> [error |-> msg,
             metadata |-> [analyzedAt |-> start, analysisDuration |-> 0]]]

\* the request's locals after an exception of class `class` with message msg
\* is raised inside the try of analyze_url by the step named cat: caught at
\* line 185 and turned into the dict of lines 187-195, or else propagated
Raised(r, class, msg, cat) ==
  IF AnalyzeUrlCatches(class)
    THEN [r EXCEPT !.pc = "returned", !.faults = @ \cup cat, !.result = ErrorResult(msg)]
    ELSE [r EXCEPT !.pc = "returned", !.faults = @ \cup cat, !.escaped = class]

Set(p, r) == req' = [req EXCEPT ![p] = r]

Tick ==
  /\ clock < MaxClock
  /\ clock' = clock + 1
  /\ UNCHANGED <<keyword_library, word_freq, req>>
  /\ OrFrame

\* app.py lines 26-31, 89-97: request.json fails or is None
ReceiveBadBody(p) ==
  /\ req[p].pc = "idle"
  /\ Set(p, [req[p] EXCEPT !.pc = "done", !.start_time = clock,
                           !.response = ErrorResponse(500, "bad request body", clock)])
  /\ UNCHANGED <<clock, keyword_library, word_freq>>
  /\ OrFrame

\* app.py lines 33-40: no url
ReceiveNoUrl(p) ==
  /\ req[p].pc = "idle"
  /\ Set(p, [req[p] EXCEPT !.pc = "done", !.start_time = clock,
                           !.response = ErrorResponse(400, "No URL provided", clock)])
  /\ UNCHANGED <<clock, keyword_library, word_freq>>
  /\ OrFrame

\* app.py lines 26-44: a url, and the call analyzer.analyze_url(url)
ReceiveUrl(p) ==
  /\ req[p].pc = "idle"
  /\ \E u \in BaseUrls :
       Set(p, [req[p] EXCEPT !.pc = "fetch", !.start_time = clock, !.url = u])
  /\ UNCHANGED <<clock, keyword_library, word_freq>>
  /\ OrFrame

\* lines 144, 45-47: the response arrives with a success status
FetchOk(p) ==
  /\ req[p].pc = "fetch"
  /\ \E page \in Pages :
       Set(p, [req[p] EXCEPT !.pc = "check", !.content = Body(page.len), !.page = page])
  /\ UNCHANGED <<clock, keyword_library, word_freq>>
  /\ OrFrame

\* lines 45-50: session.get or raise_for_status raises a RequestException
\* (transport failure, timeout, HTTP error status); any other exception is
\* not caught there and reaches the try of analyze_url
FetchRaises(p) ==
  /\ req[p].pc = "fetch"
  /\ \E class \in {"RequestException", "Exception"} :
       IF FetchCatches(class)
         THEN Set(p, [req[p] EXCEPT !.pc = "check", !.content = NoneContent,
                                    !.faults = @ \cup {"fetch"}])
         ELSE Set(p, Raised(req[p], class, "fetch failed unexpectedly",
                            {"fetch_unexpected"}))
  /\ UNCHANGED <<clock, keyword_library, word_freq>>
  /\ OrFrame

\* lines 146-155
ReturnInsufficient(p) ==
  /\ req[p].pc = "check"
  /\ TooShort(req[p].content)
  /\ Set(p, [req[p] EXCEPT !.pc = "returned", !.result = ErrorResult(InsufficientContent)])
  /\ UNCHANGED <<clock, keyword_library, word_freq>>
  /\ OrFrame

\* lines 146, 157-158: BeautifulSoup(content, 'lxml') and soup.get_text
Parse(p) ==
  /\ req[p].pc = "check"
  /\ ~TooShort(req[p].content)
  /\ Set(p, [req[p] EXCEPT !.pc = "clean", !.text = req[p].page.text,
                           !.ran = @ \cup {"parse"}])
  /\ UNCHANGED <<clock, keyword_library, word_freq>>
  /\ OrFrame

\* lines 157-158, the parser raising
ParseRaises(p) ==
  /\ req[p].pc = "check"
  /\ ~TooShort(req[p].content)
  /\ Set(p, Raised([req[p] EXCEPT !.ran = @ \cup {"parse"}],
                   "Exception", "parser failed", {"parse"}))
  /\ UNCHANGED <<clock, keyword_library, word_freq>>
  /\ OrFrame

\* lines 160-161: clean_text, and the new, empty Counter
CleanText(p) ==
  /\ req[p].pc = "clean"
  /\ Set(p, [req[p] EXCEPT !.pc = "count", !.cleaned_words = clean_text(req[p].text),
                           !.counted = 0, !.ran = @ \cup {"keywords"}])
  /\ word_freq' = [word_freq EXCEPT ![Scope(p)] = EmptyCounter]
  /\ UNCHANGED <<clock, keyword_library>>
  /\ OrFrame

\* line 161: the Counter takes the next word
CountWord(p) ==
  /\ req[p].pc = "count"
  /\ req[p].counted < Len(req[p].cleaned_words)
  /\ word_freq' = [word_freq EXCEPT
                     ![Scope(p)] = CounterAdd(@, req[p].cleaned_words[req[p].counted + 1])]
  /\ Set(p, [req[p] EXCEPT !.counted = @ + 1])
  /\ UNCHANGED <<clock, keyword_library>>
  /\ OrFrame

\* line 162
TakeKeywords(p) ==
  /\ req[p].pc = "count"
  /\ req[p].counted = Len(req[p].cleaned_words)
  /\ Set(p, [req[p] EXCEPT !.pc = "content", !.keywords = Keywords(word_freq[Scope(p)])])
  /\ UNCHANGED <<clock, keyword_library, word_freq>>
  /\ OrFrame

\* lines 54-73 with the formula's value, or with its failure (lines 58-60).
\* The pages of the model hold no headings and no strong, em, blockquote or
\* img elements.
ContentStats(text, readability, interpretation) ==
  [readabilityScore |-> readability,
   wordCount |-> Len(Split(text.chars)),
   readabilityInterpretation |-> interpretation,
   headingDistribution |-> [h \in {"h1", "h2", "h3", "h4", "h5", "h6"} |-> 0],
   contentTags |-> [t \in {"strong", "em", "blockquote", "images"} |-> 0]]

\* line 167: analyze_content(soup)
AnalyzeContent(p) ==
  /\ req[p].pc = "content"
  /\ LET rd == req[p].page.readability
         stats == IF rd.raises
                    THEN ContentStats(req[p].text, 0, "Unable to calculate")
                    ELSE ContentStats(req[p].text, rd.score,
                                      get_readability_interpretation(rd.score))
     IN  Set(p, [req[p] EXCEPT !.pc = "technical", !.ran = @ \cup {"content"},
                               !.sections = [k \in {"content"} |-> stats]])
  /\ UNCHANGED <<clock, keyword_library, word_freq>>
  /\ OrFrame

\* line 167, an exception outside the try of lines 55-60
AnalyzeContentRaises(p) ==
  /\ req[p].pc = "content"
  /\ Set(p, Raised([req[p] EXCEPT !.ran = @ \cup {"content"}],
                   "Exception", "content analysis failed", {"content"}))
  /\ UNCHANGED <<clock, keyword_library, word_freq>>
  /\ OrFrame

\* lines 126-127 and 131-132: tag[attribute] if tag else None
TagValue(state, value) ==
  IF state = "present" THEN [none |-> FALSE, value |-> value]
  ELSE [none |-> TRUE, value |-> ""]

\* lines 84-93.  The pages of the model hold no title, viewport tag or
\* JSON-LD script.
TechnicalStats(url, meta, canonical) ==
  [title |-> TagValue("absent", ""),
   metaDescription |-> TagValue(meta, "a description"),
   canonical |-> TagValue(canonical, "https://example.com/page"),
   mobileFriendly |-> FALSE,
   ssl |-> check_ssl(url),
   structuredData |-> FALSE]

\* line 168: analyze_technical(url, soup), every tag found with its attribute
AnalyzeTechnical(p) ==
  /\ req[p].pc = "technical"
  /\ "no_attribute" \notin {req[p].page.meta, req[p].page.canonical}
  /\ Set(p, [req[p] EXCEPT
                !.pc = "links", !.ran = @ \cup {"technical"},
                !.sections = [k \in {"content", "technical"} |->
                                IF k = "content" THEN req[p].sections["content"]
                                ELSE TechnicalStats(req[p].url, req[p].page.meta,
                                                    req[p].page.canonical)]])
  /\ UNCHANGED <<clock, keyword_library, word_freq>>
  /\ OrFrame

\* lines 127 and 132: meta['content'] or canonical['href'] on a tag that
\* lacks the attribute raises KeyError
AnalyzeTechnicalRaises(p) ==
  /\ req[p].pc = "technical"
  /\ "no_attribute" \in {req[p].page.meta, req[p].page.canonical}
  /\ Set(p, Raised([req[p] EXCEPT !.ran = @ \cup {"technical"}], "KeyError",
                   IF req[p].page.meta = "no_attribute" THEN "'content'" ELSE "'href'",
                   {"technical"}))
  /\ UNCHANGED <<clock, keyword_library, word_freq>>
  /\ OrFrame

\* line 169: analyze_links(url, soup)
AnalyzeLinks(p) ==
  /\ req[p].pc = "links"
  /\ Set(p, [req[p] EXCEPT
                !.pc = "assemble", !.ran = @ \cup {"links"},
                !.sections = [k \in {"content", "technical", "links"} |->
                                IF k = "links"
                                  THEN analyze_links(req[p].url, req[p].page.anchors)
                                  ELSE req[p].sections[k]]])
  /\ UNCHANGED <<clock, keyword_library, word_freq>>
  /\ OrFrame

\* line 169, an exception outside the try of lines 105-114
AnalyzeLinksRaises(p) ==
  /\ req[p].pc = "links"
  /\ Set(p, Raised([req[p] EXCEPT !.ran = @ \cup {"links"}],
                   "Exception", "link analysis failed", {"links"}))
  /\ UNCHANGED <<clock, keyword_library, word_freq>>
  /\ OrFrame

\* line 175 reads the global name time
TimeIsBound == "time" \in ModuleGlobals

\* lines 164-178, once every value of the dict is evaluated.  The handler
\* passes no report_file, so lines 180-181 write nothing.
Analysis(r, now) ==
  [url |-> r.url,
   keywords |-> r.keywords,
   content |-> r.sections["content"],
   technical |-> r.sections["technical"],
   links |-> r.sections["links"],
   performance |-> [totalResources |-> IF r.sections["technical"].canonical.none
                                         THEN 0 ELSE 1,
                    totalSize |-> r.content.len],
   metadata |-> [analysisDuration |-> 0, analyzedAt |-> now]]

\* lines 170-183: the performance and metadata entries and the return;
\* time.time() raises NameError when the name is not bound
Assemble(p) ==
  /\ req[p].pc = "assemble"
  /\ IF TimeIsBound
       THEN Set(p, [req[p] EXCEPT !.pc = "returned", !.result = Analysis(req[p], clock)])
       ELSE Set(p, Raised(req[p], "NameError", "name 'time' is not defined", {"assemble"}))
  /\ UNCHANGED <<clock, keyword_library, word_freq>>
  /\ OrFrame

\* the keys the handler subscripts, in the order of app.py lines 63-75
HandlerReads ==
  << <<"content_stats", "readability_score">>, <<"content_stats", "word_count">>,
     <<"technical_stats", "mobile_friendly">>, <<"technical_stats", "ssl_certificate">>,
     <<"link_stats", "internal_links">>, <<"link_stats", "external_links">> >>

\* the key at which analysis[path[1]][path[2]] raises KeyError, "" if none
MissingAt(analysis, path) ==
  IF path[1] \notin DOMAIN analysis THEN path[1]
  ELSE IF path[2] \notin DOMAIN analysis[path[1]] THEN path[2]
  ELSE ""

\* the first key the handler fails to read, "" if it reads them all
FirstMissing(analysis) ==
  IF \A i \in DOMAIN HandlerReads : MissingAt(analysis, HandlerReads[i]) = ""
    THEN ""
    ELSE LET i == CHOOSE i \in DOMAIN HandlerReads :
                    /\ MissingAt(analysis, HandlerReads[i]) # ""
                    /\ \A j \in 1..(i - 1) : MissingAt(analysis, HandlerReads[j]) = ""
         IN  MissingAt(analysis, HandlerReads[i])

\* analysis.get(key, default)
DictGet(d, key, default) == IF key \in DOMAIN d THEN d[key] ELSE default

\* app.py lines 60-85
SuccessResponse(analysis, start, end) ==
  [status |-> 200,
   body |-> [keywords |-> DictGet(analysis, "keywords", <<>>),
             content |->
               [readabilityScore |-> analysis["content_stats"]["readability_score"],
                readabilityInterpretation |->
                  InterpretReadability(analysis["content_stats"]["readability_score"]),
                wordCount |-> analysis["content_stats"]["word_count"]],
             technical |->
               [mobileFriendly |-> analysis["technical_stats"]["mobile_friendly"],
                ssl |-> analysis["technical_stats"]["ssl_certificate"],
                structuredData |-> FALSE],
             links |->
               [internalCount |-> Len(analysis["link_stats"]["internal_links"]),
                externalCount |-> Len(analysis["link_stats"]["external_links"]),
                totalCount |-> Len(analysis["link_stats"]["internal_links"])
                               + Len(analysis["link_stats"]["external_links"])],
             performance |->
               [totalResources |-> Len(DictGet(analysis, "resource_stats", <<>>)),
                totalSize |-> DictGet(analysis, "total_page_size", 0)],
             metadata |-> [analyzedAt |-> start, analysisDuration |-> end - start]]]

\* str(KeyError(key))
KeyErrorText(key) == "'" \o key \o "'"

\* app.py lines 43-97, after analyze_url: the inner except (lines 45-53)
\* when it raised; else the duration and the transformation of lines 60-85,
\* whose KeyError the outer except (lines 89-97) turns into a 500
Respond(p) ==
  /\ req[p].pc = "returned"
  /\ LET r == req[p]
         missing == FirstMissing(r.result)
     IN  Set(p, [r EXCEPT
                   !.pc = "done",
                   !.response =
                     IF r.escaped # "none"
                       THEN ErrorResponse(500, "Failed to analyze URL", r.start_time)
                     ELSE IF missing # ""
                       THEN ErrorResponse(500, KeyErrorText(missing), r.start_time)
                     ELSE SuccessResponse(r.result, r.start_time, clock)])
  /\ UNCHANGED <<clock, keyword_library, word_freq>>
  /\ OrFrame

OrNext ==
  \/ Tick
  \/ \E p \in Requests :
       \/ ReceiveBadBody(p)
       \/ ReceiveNoUrl(p)
       \/ ReceiveUrl(p)
       \/ FetchOk(p)
       \/ FetchRaises(p)
       \/ ReturnInsufficient(p)
       \/ Parse(p)
       \/ ParseRaises(p)
       \/ CleanText(p)
       \/ CountWord(p)
       \/ TakeKeywords(p)
       \/ AnalyzeContent(p)
       \/ AnalyzeContentRaises(p)
       \/ AnalyzeTechnical(p)
       \/ AnalyzeTechnicalRaises(p)
       \/ AnalyzeLinks(p)
       \/ AnalyzeLinksRaises(p)
       \/ Assemble(p)
       \/ Respond(p)

(***************************************************************************)
(* The specifications.                                                     *)
(***************************************************************************)
InitClean == CtInit /\ KwIdle /\ LnIdle /\ OrIdle
InitKeywords == KwInit /\ CtIdle /\ LnIdle /\ OrIdle
InitLinks == LnInit /\ CtIdle /\ KwIdle /\ OrIdle
Init == OrInit /\ CtIdle /\ KwIdle /\ LnIdle

SpecClean == InitClean /\ [][CtNext]_vars

SpecKeywords == InitKeywords /\ [][KwNext]_vars

SpecLinks == InitLinks /\ [][LnNext]_vars

Next == OrNext

Spec == Init /\ [][Next]_vars

(***************************************************************************)
(* The claims about analyze_url and the handler, under Spec.               *)
(***************************************************************************)
\* analyze_url was called for request p
Called(p) == req[p].url # EmptyUrl

\* ... and has come back
After(p) == Called(p) /\ req[p].pc \in {"returned", "done"}

\* the result carries an error marker
HasError(result) == "error" \in DOMAIN result

\* the steps of the spec's Fetching, Parsing and Extracting stages
AnalyzerFaults == {"fetch", "fetch_unexpected", "parse", "content", "technical", "links"}

\* the page was fetched and is long enough
LongEnough(p) == ~req[p].content.none /\ req[p].content.len >= MinContentLen

C2_FetchFailureReportsFetchError ==
  \A p \in Requests : (After(p) /\ "fetch" \in req[p].faults) =>
    /\ HasError(req[p].result)
    /\ req[p].result.error # InsufficientContent
    /\ req[p].result.keywords = <<>>
    /\ req[p].ran = {}

(***************************************************************************)
(* C3: a fetched body that is absent, empty or shorter than 100 characters *)
(* yields the error "Insufficient content" with empty keyword, content,    *)
(* technical and link sections, and no analyzer is run; a body of 100      *)
(* characters or more is not rejected by this check.                       *)
(***************************************************************************)
C3_ShortBodyInsufficient ==
  \A p \in Requests : After(p) =>
    /\ ("fetch" \in req[p].faults
          \/ (~req[p].content.none /\ req[p].content.len < MinContentLen)) =>
         /\ req[p].result = ErrorResult(InsufficientContent)
         /\ req[p].result.keywords = <<>>
         /\ \A k \in {"content", "technical", "links"} : DOMAIN req[p].result[k] = {}
         /\ req[p].ran = {}
    /\ LongEnough(p) =>
         /\ "parse" \in req[p].ran
         /\ HasError(req[p].result) => req[p].result.error # InsufficientContent

\* a body of 50 characters rejected, a body of exactly 100 characters not
C3_Witness ==
  \E p, q \in Requests :
    /\ After(p) /\ req[p].content = Body(50)
    /\ req[p].result.error = InsufficientContent
    /\ After(q) /\ req[q].content = Body(MinContentLen)
    /\ req[q].ran # {}

(***************************************************************************)
(* C4: when the fetch succeeds with a body of at least 100 characters and  *)
(* no analyzer faults, analyze_url returns a result with no error marker   *)
(* that holds all four categories and metadata with a timestamp and the    *)
(* duration.                                                               *)
(***************************************************************************)
C4_SuccessPathReturnsAnalysis ==
  \A p \in Requests :
    (After(p) /\ LongEnough(p) /\ req[p].faults \cap AnalyzerFaults = {}) =>
      /\ ~HasError(req[p].result)
      /\ {"keywords", "content", "technical", "links", "metadata"}
           \subseteq DOMAIN req[p].result
      /\ {"analysisDuration", "analyzedAt"} \subseteq DOMAIN req[p].result.metadata

(***************************************************************************)
(* C5: when exactly one extraction path throws (here analyze_technical, on *)
(* a tag that lacks its attribute), only that category is degraded to its  *)
(* empty value, the other three are computed and returned, and the         *)
(* analysis does not end in Failed.                                        *)
(***************************************************************************)
C5_OneFaultDegradesOneCategory ==
  \A p \in Requests :
    (After(p) /\ req[p].faults \cap AnalyzerFaults = {"technical"}) =>
      /\ ~HasError(req[p].result)
      /\ DOMAIN req[p].result.technical = {}
      /\ DOMAIN req[p].result.content # {}
      /\ DOMAIN req[p].result.links # {}
      /\ req[p].result.keywords = Keywords(Counter(req[p].cleaned_words))

(***************************************************************************)
(* C6: concurrent analyses on the shared SEOAnalyzer do not share keyword  *)
(* frequency state: in every interleaving the count a call builds is the   *)
(* count of its own words so far, its keyword list is the list it produces *)
(* when run alone, and the instance's keyword_library is never written.    *)
(***************************************************************************)
C6_KeywordStateIsRequestScoped ==
  /\ keyword_library = EmptyCounter
  /\ \A p \in Requests :
       /\ req[p].pc = "count" =>
            word_freq[p] = Counter(SubSeq(req[p].cleaned_words, 1, req[p].counted))
       /\ req[p].pc \in {"content", "technical", "links", "assemble"} =>
            /\ req[p].cleaned_words = clean_text(req[p].page.text)
            /\ req[p].keywords = Keywords(Counter(req[p].cleaned_words))

\* two calls on different URLs and different pages, both in the middle of
\* their counts at once
C6_Witness ==
  /\ req["r1"].pc = "count" /\ req["r2"].pc = "count"
  /\ req["r1"].url # req["r2"].url
  /\ req["r1"].cleaned_words # req["r2"].cleaned_words
  /\ req["r1"].counted = 1 /\ req["r2"].counted = 2

(***************************************************************************)
(* C10: the handler can read every field it uses from whatever result      *)
(* analyze_url returns, so it never takes its catch-all 500 path because   *)
(* of a missing field, and a result without an error marker produces a 200 *)
(* response.                                                               *)
(***************************************************************************)
C10_HandlerReadsAnalyzerResult ==
  \A p \in Requests : (Called(p) /\ req[p].pc = "done" /\ req[p].escaped = "none") =>
    /\ FirstMissing(req[p].result) = ""
    /\ ~HasError(req[p].result) => req[p].response.status = 200

\* how often token t occurs in list ws, and where it occurs first
Occurrences(ws, t) == Cardinality({i \in DOMAIN ws : ws[i] = t})

FirstIndex(ws, t) == CHOOSE i \in DOMAIN ws : ws[i] = t /\ \A j \in 1..(i - 1) : ws[j] # t

\* token a ranks before token b: more frequent, or as frequent and seen first
RanksBefore(ws, a, b) ==
  \/ Occurrences(ws, a) > Occurrences(ws, b)
  \/ /\ Occurrences(ws, a) = Occurrences(ws, b)
     /\ FirstIndex(ws, a) < FirstIndex(ws, b)

(***************************************************************************)
(* C7: the keyword list has length min(10, number of distinct tokens), no  *)
(* token twice, descending frequency, and tokens of equal frequency in the *)
(* order of their first appearance, also across the 10th place: every      *)
(* token left out ranks behind every token kept.                           *)
(***************************************************************************)
C7_TopTenStable ==
  kwPc = "done" =>
    /\ Len(kwOut) = Min(TopN, Cardinality(Range(kwTokens)))
    /\ Range(kwOut) \subseteq Range(kwTokens)
    /\ \A i, j \in DOMAIN kwOut : i < j =>
         /\ kwOut[i] # kwOut[j]
         /\ RanksBefore(kwTokens, kwOut[i], kwOut[j])
    /\ \A t \in Range(kwTokens) \ Range(kwOut) :
         \A i \in DOMAIN kwOut : RanksBefore(kwTokens, kwOut[i], t)

\* more than 10 distinct tokens, and a token left out that is as frequent
\* as the last token kept
C7_Witness ==
  /\ kwPc = "done"
  /\ Cardinality(Range(kwTokens)) > TopN
  /\ Len(kwOut) = TopN
  /\ \E t \in Range(kwTokens) \ Range(kwOut) :
       Occurrences(kwTokens, t) = Occurrences(kwTokens, kwOut[TopN])
  /\ \E i \in DOMAIN kwOut : Occurrences(kwTokens, kwOut[i]) > 1

(***************************************************************************)
(* The classification the claim describes, stated on the href alone: an    *)
(* href is internal when it names the base's netloc, or names none and is  *)
(* relative to the base (no scheme, or the base's scheme).                 *)
(***************************************************************************)
ExpectedInternal(base, h) ==
  \/ h.netloc = base.netloc
  \/ h.netloc = "" /\ h.scheme \in {"", base.scheme}

(***************************************************************************)
(* C8 as the spec states it: every anchor that has an href is counted      *)
(* exactly once, as internal or as external.                               *)
(***************************************************************************)
C8_EveryHrefCounted ==
  lnPc = "done" =>
    /\ lnResult.totalCount = lnResult.internalCount + lnResult.externalCount
    /\ lnResult.totalCount = Cardinality({i \in DOMAIN lnAnchors : lnAnchors[i].has_href})

(***************************************************************************)
(* C8 amended: every anchor whose href resolves without an error is        *)
(* counted exactly once, as internal iff the resolved netloc equals the    *)
(* base's by exact string match and as external otherwise (mailto and a    *)
(* subdomain external, relative and fragment-only internal); anchors       *)
(* without an href and anchors whose href fails to resolve are counted in  *)
(* neither; totalCount = internalCount + externalCount.                    *)
(***************************************************************************)
C8_ResolvableHrefsPartitioned ==
  lnPc = "done" =>
    LET hs == HrefsOf(lnAnchors)
        In(h) == h.valid /\ ExpectedInternal(lnBase, h)
        Out(h) == h.valid /\ ~ExpectedInternal(lnBase, h)
    IN  /\ internal_links = SelectSeq(hs, In)
        /\ external_links = SelectSeq(hs, Out)
        /\ lnResult.internalCount = Len(internal_links)
        /\ lnResult.externalCount = Len(external_links)
        /\ lnResult.totalCount = lnResult.internalCount + lnResult.externalCount
        /\ lnResult.totalCount =
             Cardinality({i \in DOMAIN lnAnchors :
                            lnAnchors[i].has_href /\ lnAnchors[i].href.valid})
        /\ \A h \in Range(external_links) :
             h.scheme = "mailto" \/ h.netloc \notin {"", lnBase.netloc}
        /\ \A h \in Range(hs) :
             (h.valid /\ h.scheme = "" /\ h.netloc = "") => h \in Range(internal_links)

\* a relative href counted internal, a mailto href counted external, and an
\* anchor without an href counted in neither
C8_Witness ==
  /\ lnPc = "done"
  /\ \E i \in DOMAIN lnAnchors : ~lnAnchors[i].has_href
  /\ Url("", "", "/about", "") \in Range(internal_links)
  /\ Url("mailto", "", "a@b.com", "") \in Range(external_links)
  /\ lnResult.totalCount = 2

(***************************************************************************)
(* C9 as the spec states it: the returned tokens (after stemming) contain  *)
(* no token shorter than 3 characters and no stop word.                    *)
(***************************************************************************)
C9_OutputHasNoShortOrStopToken ==
  ctPc = "done" =>
    \A i \in DOMAIN ctOut : Len(ctOut[i]) >= 3 /\ ctOut[i] \notin stop_words

(***************************************************************************)
(* C9 amended: the length and stop-word filter applies to the words before *)
(* stemming: every word handed to the stemmer has at least 3 characters    *)
(* and is not a stop word, the result holds one stem per such word, and    *)
(* empty or null input yields the empty sequence.                          *)
(***************************************************************************)
C9_FilterPrecedesStemming ==
  /\ \A i \in DOMAIN ctWords :
       /\ Len(ctWords[i]) >= 3
       /\ ctWords[i] \notin stop_words
       /\ \A j \in DOMAIN ctWords[i] : ctWords[i][j] \in {"a", "n", "d", "s"}
  /\ ctPc = "done" =>
       /\ Len(ctOut) = Len(ctWords)
       /\ \A i \in DOMAIN ctOut : ctOut[i] # <<>>
       /\ IsEmptyText(ctText) => ctOut = <<>>

\* a text whose word "ands" passes the filter and is stemmed to the stop
\* word "and", or whose 3-letter word is stemmed to 2 letters
C9_Witness ==
  /\ ctPc = "done"
  /\ \E i \in DOMAIN ctOut :
       /\ Len(ctWords[i]) >= 3
       /\ (Len(ctOut[i]) < 3 \/ ctOut[i] \in stop_words)

====
